---- MODULE Spec2Model ----
(***************************************************************************)
(* A model of drawWithCursor.py: the Window class (boundaries, border,     *)
(* cursor placement and movement, screen redraw) and the key loop of       *)
(* main().  The terminal is a grid of LINES x COLS cells; stdscr.addstr is *)
(* modelled by what curses does: it writes the glyph when the cell is in   *)
(* the window and raises curses.error when the cell is outside the window  *)
(* or when the write ends on the bottom-right cell.                        *)
(* Spec is the Window with its clients (the key loop of main and direct    *)
(* calls); FaultSpec is main with TRAIL and HEAD paints that can raise;    *)
(* CtorSpec is construction alone, over all four margins.                  *)
(***************************************************************************)
EXTENDS Integers, Sequences, FiniteSets, TLC

\* ------------------------------------------------------------------ bounds
\* Largest terminal width and height the model constructs a Window for.
MaxCols == 7
MaxLines == 7
\* Largest length of the header message.
MaxMsgLen == 9
\* Largest distance passed to move_cursor (the smallest is -1).
MaxDist == 2
\* Largest number of cells of the cursor area of a constructed Window.
MaxArea == 4
\* Largest margin (buffer_top, buffer_bottom, buffer_left, buffer_right) of
\* the Windows whose construction alone is followed.
MaxBuffer == 1

\* ------------------------------------------------------- program constants
\* The default of buffer_top, buffer_bottom, buffer_left and buffer_right,
\* which is what main() constructs its Window with.
DefaultBuffer == 1

\* ------------------------------------------------------------ Python values
\* Python's None, for the integer-valued fields and arguments.
None == -1000

\* The members of the Direction enum.
Direction == {"LEFT", "RIGHT", "UP", "DOWN"}

\* A value that is no member of Direction.
NotADirection == "NOT_A_DIRECTION"

VARIABLES
    curses,     \* [COLS, LINES]: the terminal size curses reports
    self,       \* the fields of the Window object
    stdscr,     \* the screen: glyph shown at each cell <<y, x>> of the window
    pc,         \* the statement the program is at
    frame,      \* the call in progress: operation, arguments, position on entry
    paints,     \* the stdscr.addstr calls of the call in progress, in order
    result,     \* what the call in progress returned or raised
    key,        \* the key get_key returned for the call in progress
    expected,   \* the position the accepted moves add up to (history)
    last_head,  \* the cell of the latest HEAD paint that succeeded (history)
    visited     \* the cells the cursor was stored at since the last clear

vars == <<curses, self, stdscr, pc, frame, paints, result, key, expected,
          last_head, visited>>

\* ----------------------------------------------------------------- curses
Cells(c) == (0..(c.LINES - 1)) \X (0..(c.COLS - 1))

InWindow(c, y, x) == 0 <= y /\ y < c.LINES /\ 0 <= x /\ x < c.COLS

\* stdscr.addstr(y, x, ch) of one character raises curses.error when the cell
\* is outside the window, and when it is the bottom-right cell (the glyph is
\* written, the cursor cannot advance).
AddstrOK(c, y, x) ==
    InWindow(c, y, x) /\ ~(y = c.LINES - 1 /\ x = c.COLS - 1)

Addstr(scr, c, y, x, ch) ==
    IF InWindow(c, y, x) THEN [scr EXCEPT ![<<y, x>>] = ch] ELSE scr

\* stdscr.addstr(0, 0, message): the text wraps at the right edge; it raises
\* when it reaches the end of the window.
MessageOK(c, len) == len < c.COLS * c.LINES

AddMessage(scr, c, len) ==
    [p \in Cells(c) |->
        IF p[1] * c.COLS + p[2] < len THEN "m" ELSE scr[p]]

\* stdscr.clear()
Blank(c) == [p \in Cells(c) |-> " "]

\* ----------------------------------------------------------------- Window
\* __init__: the initial cursor position when none is given.
InitialCursorX(cursor_x, buffer_left, draw_border) ==
    IF cursor_x = None
    THEN (IF draw_border THEN buffer_left + 1 ELSE buffer_left)
    ELSE cursor_x

\* An initial row that does not count the header row.
InitialCursorYNoHeaderRow(cursor_y, buffer_top, draw_border) ==
    IF cursor_y = None
    THEN (IF draw_border THEN buffer_top + 1 ELSE buffer_top)
    ELSE cursor_y

InitialCursorY(cursor_y, buffer_top, draw_border) ==
    IF cursor_y = None
    THEN (IF draw_border THEN buffer_top + 2 ELSE buffer_top + 1)
    ELSE cursor_y

\* The Window object after the assignments of __init__, before it calls
\* draw_initial_screen.
NewWindow(cursor_x, cursor_y, bt, bb, bl, br, message, draw_border) ==
    [ buffer_top |-> bt, buffer_bottom |-> bb,
      buffer_left |-> bl, buffer_right |-> br,
      message |-> message, draw_border |-> draw_border,
      cursor_x |-> None, cursor_y |-> None,
      initial_cursor_x |-> InitialCursorX(cursor_x, bl, draw_border),
      initial_cursor_y |-> InitialCursorY(cursor_y, bt, draw_border),
      min_x |-> None, min_y |-> None, max_x |-> None, max_y |-> None,
      cursor_min_x |-> None, cursor_max_x |-> None,
      cursor_min_y |-> None, cursor_max_y |-> None ]

OuterMinX(s) == s.buffer_left
OuterMinY(s) == s.buffer_top + 1
\* A right edge on the last column left of the margin.
OuterMaxXFullWidth(s, c) == c.COLS - 1 - s.buffer_right

OuterMaxX(s, c) == c.COLS - 2 - s.buffer_right
OuterMaxY(s, c) == c.LINES - 1 - s.buffer_bottom

\* Boundaries whose cursor area reaches the right and bottom edges of the
\* window even with a border.
update_boundaries_open_corner(s, c) ==
    LET o == [s EXCEPT !.min_x = OuterMinX(s), !.min_y = OuterMinY(s),
                       !.max_x = OuterMaxX(s, c), !.max_y = OuterMaxY(s, c)]
    IN  IF o.draw_border
        THEN [o EXCEPT !.cursor_min_x = o.min_x + 1,
                       !.cursor_max_x = o.max_x,
                       !.cursor_min_y = o.min_y + 1,
                       !.cursor_max_y = o.max_y]
        ELSE [o EXCEPT !.cursor_min_x = o.min_x,
                       !.cursor_max_x = o.max_x,
                       !.cursor_min_y = o.min_y,
                       !.cursor_max_y = o.max_y]

update_boundaries(s, c) ==
    LET o == [s EXCEPT !.min_x = OuterMinX(s), !.min_y = OuterMinY(s),
                       !.max_x = OuterMaxX(s, c), !.max_y = OuterMaxY(s, c)]
    IN  IF o.draw_border
        THEN [o EXCEPT !.cursor_min_x = o.min_x + 1,
                       !.cursor_max_x = o.max_x - 1,
                       !.cursor_min_y = o.min_y + 1,
                       !.cursor_max_y = o.max_y - 1]
        ELSE [o EXCEPT !.cursor_min_x = o.min_x,
                       !.cursor_max_x = o.max_x,
                       !.cursor_min_y = o.min_y,
                       !.cursor_max_y = o.max_y]

\* A bounds check that lets the cursor onto the cell right of the area.
cursor_position_in_bounds_off_by_one(s, x, y) ==
    IF ~(s.cursor_min_x <= x /\ x <= s.cursor_max_x + 1)
       \/ ~(s.cursor_min_y <= y /\ y <= s.cursor_max_y)
    THEN FALSE
    ELSE TRUE

\* A bounds check that tests the lower bounds only.
cursor_position_in_bounds_lower_only(s, x, y) ==
    IF ~(s.cursor_min_x <= x) \/ ~(s.cursor_min_y <= y)
    THEN FALSE
    ELSE TRUE

\* A bounds check that tests the column only.
cursor_position_in_bounds_x_only(s, x, y) ==
    IF ~(s.cursor_min_x <= x /\ x <= s.cursor_max_x)
    THEN FALSE
    ELSE TRUE

cursor_position_in_bounds(s, x, y) ==
    IF ~(s.cursor_min_x <= x /\ x <= s.cursor_max_x)
       \/ ~(s.cursor_min_y <= y /\ y <= s.cursor_max_y)
    THEN FALSE
    ELSE TRUE

\* draw_box: the addstr calls <<y, x, glyph>> in the order the two loops
\* make them.
BoxCalls(s) ==
    LET n1 == IF s.max_y >= s.min_y THEN s.max_y - s.min_y + 1 ELSE 0
        n2 == IF s.max_x >= s.min_x THEN s.max_x - s.min_x + 1 ELSE 0
        sides == [i \in 1..(2 * n1) |->
                    LET y == s.min_y + ((i - 1) \div 2) IN
                    IF i % 2 = 1 THEN <<y, s.min_x, "|">>
                                 ELSE <<y, s.max_x, "|">>]
        edges == [i \in 1..(2 * n2) |->
                    LET x == s.min_x + ((i - 1) \div 2) IN
                    IF i % 2 = 1 THEN <<s.min_y, x, "-">>
                                 ELSE <<s.max_y, x, "-">>]
    IN  [i \in 1..(2 * n1 + 2 * n2) |->
            IF i <= 2 * n1 THEN sides[i] ELSE edges[i - 2 * n1]]

\* The index of the first call of a sequence that raises, 0 when none does.
FirstFail(calls, c) ==
    LET bad == {i \in 1..Len(calls) : ~AddstrOK(c, calls[i][1], calls[i][2])}
    IN  IF bad = {} THEN 0
        ELSE CHOOSE i \in bad : \A j \in bad : i <= j

\* The calls that are made: all of them, or those up to the one that raises.
Made(calls, c) ==
    IF FirstFail(calls, c) = 0 THEN Len(calls) ELSE FirstFail(calls, c)

\* The screen after the calls that are made.
ApplyCalls(scr, calls, c) ==
    [p \in Cells(c) |->
        LET hit == {i \in 1..Made(calls, c) :
                      calls[i][1] = p[1] /\ calls[i][2] = p[2]}
        IN  IF hit = {} THEN scr[p]
            ELSE calls[CHOOSE i \in hit : \A j \in hit : j <= i][3]]

\* One entry of the paint log.
Paint(style, y, x, ok) == [style |-> style, y |-> y, x |-> x, ok |-> ok]

BoxPaints(calls, c) ==
    [i \in 1..Made(calls, c) |->
        Paint("BORDER", calls[i][1], calls[i][2],
              AddstrOK(c, calls[i][1], calls[i][2]))]

\* A distance check that lets 0 through.
DistanceInvalidAllowsZero(distance) == distance < 0

\* move_cursor: distance < 1 raises ValueError.
DistanceInvalid(distance) == distance < 1

Clamp(v, lo, hi) == IF v < lo THEN lo ELSE IF v > hi THEN hi ELSE v

\* A move that stops at the wall instead of being rejected.
CandidateClamped(s, direction, distance) ==
    CASE direction = "LEFT"  ->
           <<Clamp(s.cursor_x - distance, s.cursor_min_x, s.cursor_max_x),
             s.cursor_y>>
      [] direction = "RIGHT" ->
           <<Clamp(s.cursor_x + distance, s.cursor_min_x, s.cursor_max_x),
             s.cursor_y>>
      [] direction = "UP"    ->
           <<s.cursor_x,
             Clamp(s.cursor_y - distance, s.cursor_min_y, s.cursor_max_y)>>
      [] direction = "DOWN"  ->
           <<s.cursor_x,
             Clamp(s.cursor_y + distance, s.cursor_min_y, s.cursor_max_y)>>

\* A move whose UP branch adds the distance, as DOWN does.
CandidateUpAdds(s, direction, distance) ==
    CASE direction = "LEFT"  -> <<s.cursor_x - distance, s.cursor_y>>
      [] direction = "RIGHT" -> <<s.cursor_x + distance, s.cursor_y>>
      [] direction = "UP"    -> <<s.cursor_x, s.cursor_y + distance>>
      [] direction = "DOWN"  -> <<s.cursor_x, s.cursor_y + distance>>

\* move_cursor: the candidate cell of a move.
Candidate(s, direction, distance) ==
    CASE direction = "LEFT"  -> <<s.cursor_x - distance, s.cursor_y>>
      [] direction = "RIGHT" -> <<s.cursor_x + distance, s.cursor_y>>
      [] direction = "UP"    -> <<s.cursor_x, s.cursor_y - distance>>
      [] direction = "DOWN"  -> <<s.cursor_x, s.cursor_y + distance>>

\* ------------------------------------------------------------------ frames
NoFrame ==
    [op |-> "none", direction |-> "none", distance |-> None,
     reset_cursor |-> FALSE, x |-> None, y |-> None,
     pre_x |-> None, pre_y |-> None]

Exceptions ==
    {"ValueError: out of bounds", "ValueError: distance",
     "ValueError: direction", "TypeError", "curses.error"}

\* The number of cells of the cursor area.
Area(s) ==
    LET w == s.cursor_max_x - s.cursor_min_x + 1
        h == s.cursor_max_y - s.cursor_min_y + 1
    IN  IF w <= 0 \/ h <= 0 THEN 0 ELSE w * h

\* ---------------------------------------------------------------- initial
\* main() starts, or a client constructs a Window: the terminal has some
\* size, __init__ has stored its arguments (a top and a left margin up to
\* the default, the default bottom and right margins, a border or none, a
\* message or none, an initial cursor position or none) and is about to
\* call draw_initial_screen().  main() passes the defaults and a message.
Init ==
    \E cols \in 1..MaxCols, lines \in 1..MaxLines,
       db \in BOOLEAN, msg \in {None, MaxMsgLen},
       bt \in 0..DefaultBuffer, bl \in 0..DefaultBuffer :
    \E cx \in {None} \cup (0..(cols - 1)),
       cy \in {None} \cup (0..(lines - 1)) :
        LET c == [COLS |-> cols, LINES |-> lines]
            s == NewWindow(cx, cy, bt, DefaultBuffer, bl, DefaultBuffer,
                           msg, db)
        IN  /\ Area(update_boundaries(s, c)) <= MaxArea
            /\ curses = c
            /\ self = s
            /\ stdscr = Blank(c)
            /\ pc = "dis_begin"
            /\ frame = [NoFrame EXCEPT !.op = "init", !.reset_cursor = TRUE]
            /\ paints = <<>>
            /\ result = "none"
            /\ key = "none"
            /\ expected = <<None, None>>
            /\ last_head = <<None, None>>
            /\ visited = {}

\* An update_cursor without its bounds check.
EnterUpdateCursorNoCheck(x, y) ==
    pc' = "uc_trail" /\ UNCHANGED result

\* ------------------------------------------- update_cursor, on entry
\* if not self.cursor_position_in_bounds(x, y): raise ValueError
\* (comparing an int with None raises TypeError).  Sets pc and result.
EnterUpdateCursor(x, y) ==
    IF x = None \/ y = None
    THEN pc' = "ret" /\ result' = "TypeError"
    ELSE IF ~cursor_position_in_bounds(self, x, y)
         THEN pc' = "ret" /\ result' = "ValueError: out of bounds"
         ELSE pc' = "uc_trail" /\ UNCHANGED result

\* ------------------------------------------------- draw_initial_screen
\* stdscr.clear(), the colour set-up, update_boundaries().
DisBegin ==
    /\ pc = "dis_begin"
    /\ stdscr' = Blank(curses)
    /\ self' = update_boundaries(self, curses)
    /\ pc' = "dis_message"
    /\ visited' = {}
    /\ UNCHANGED <<curses, frame, paints, result, key, expected, last_head>>

\* if self.message is not None: self.stdscr.addstr(0, 0, self.message)
DisMessage ==
    /\ pc = "dis_message"
    /\ IF self.message = None
       THEN /\ pc' = "dis_border"
            /\ UNCHANGED <<stdscr, paints, result>>
       ELSE /\ stdscr' = AddMessage(stdscr, curses, self.message)
            /\ paints' = Append(paints,
                   Paint("MESSAGE", 0, 0, MessageOK(curses, self.message)))
            /\ IF MessageOK(curses, self.message)
               THEN pc' = "dis_border" /\ UNCHANGED result
               ELSE pc' = "ret" /\ result' = "curses.error"
    /\ UNCHANGED <<curses, self, frame, key, expected, last_head, visited>>

\* if self.draw_border: self.draw_box()
DisBorder ==
    /\ pc = "dis_border"
    /\ IF ~self.draw_border
       THEN /\ pc' = "dis_cursor"
            /\ UNCHANGED <<stdscr, paints, result>>
       ELSE LET calls == BoxCalls(self) IN
            /\ stdscr' = ApplyCalls(stdscr, calls, curses)
            /\ paints' = paints \o BoxPaints(calls, curses)
            /\ IF FirstFail(calls, curses) = 0
               THEN pc' = "dis_cursor" /\ UNCHANGED result
               ELSE pc' = "ret" /\ result' = "curses.error"
    /\ UNCHANGED <<curses, self, frame, key, expected, last_head, visited>>

\* if reset_cursor: forget the cursor and place it at the initial position;
\* else: place it where it is.  Either way update_cursor is entered.
DisCursor ==
    /\ pc = "dis_cursor"
    /\ IF frame.reset_cursor
       THEN /\ self' = [self EXCEPT !.cursor_x = None, !.cursor_y = None]
            /\ frame' = [frame EXCEPT !.x = self.initial_cursor_x,
                                      !.y = self.initial_cursor_y]
       ELSE /\ self' = self
            /\ frame' = [frame EXCEPT !.x = self.cursor_x,
                                      !.y = self.cursor_y]
    /\ EnterUpdateCursor(frame'.x, frame'.y)
    /\ UNCHANGED <<curses, stdscr, paints, key, expected, last_head, visited>>

\* --------------------------------------------------------- update_cursor
\* An update that stores the new position before it paints.
UcTrailStoresFirst ==
    /\ pc = "uc_trail"
    /\ self' = [self EXCEPT !.cursor_x = frame.x, !.cursor_y = frame.y]
    /\ IF self.cursor_x # None /\ self.cursor_y # None
       THEN /\ stdscr' = Addstr(stdscr, curses, self.cursor_y, self.cursor_x, "#")
            /\ paints' = Append(paints,
                   Paint("TRAIL", self.cursor_y, self.cursor_x, TRUE))
       ELSE UNCHANGED <<stdscr, paints>>
    /\ pc' = "uc_head"
    /\ UNCHANGED <<curses, frame, result, key, expected, last_head, visited>>

\* An update that does not paint the trail when the position is unchanged.
UcTrailSkipsSameCell ==
    /\ pc = "uc_trail"
    /\ IF /\ self.cursor_x # None /\ self.cursor_y # None
          /\ ~(self.cursor_x = frame.x /\ self.cursor_y = frame.y)
       THEN /\ stdscr' = Addstr(stdscr, curses, self.cursor_y, self.cursor_x, "#")
            /\ paints' = Append(paints,
                   Paint("TRAIL", self.cursor_y, self.cursor_x, TRUE))
       ELSE UNCHANGED <<stdscr, paints>>
    /\ pc' = "uc_head"
    /\ UNCHANGED <<curses, self, frame, result, key, expected, last_head, visited>>

\* paint current position with prev_point_char
UcTrail ==
    /\ pc = "uc_trail"
    /\ IF self.cursor_x # None /\ self.cursor_y # None
       THEN LET ok == AddstrOK(curses, self.cursor_y, self.cursor_x) IN
            /\ stdscr' = Addstr(stdscr, curses, self.cursor_y, self.cursor_x, "#")
            /\ paints' = Append(paints,
                   Paint("TRAIL", self.cursor_y, self.cursor_x, ok))
            /\ IF ok THEN pc' = "uc_head" /\ UNCHANGED result
                     ELSE pc' = "ret" /\ result' = "curses.error"
       ELSE /\ pc' = "uc_head"
            /\ UNCHANGED <<stdscr, paints, result>>
    /\ UNCHANGED <<curses, self, frame, key, expected, last_head, visited>>

\* A HEAD paint with row and column exchanged.
UcHeadSwapsYX ==
    /\ pc = "uc_head"
    /\ LET ok == AddstrOK(curses, frame.x, frame.y) IN
       /\ stdscr' = Addstr(stdscr, curses, frame.x, frame.y, "@")
       /\ paints' = Append(paints, Paint("HEAD", frame.x, frame.y, ok))
       /\ IF ok THEN pc' = "uc_store" /\ UNCHANGED result
                ELSE pc' = "ret" /\ result' = "curses.error"
       /\ last_head' = IF ok THEN <<frame.y, frame.x>> ELSE last_head
    /\ UNCHANGED <<curses, self, frame, key, expected, visited>>

\* A HEAD paint that also stores the new position.
UcHeadStoresAsItPaints ==
    /\ pc = "uc_head"
    /\ LET ok == AddstrOK(curses, frame.y, frame.x) IN
       /\ stdscr' = Addstr(stdscr, curses, frame.y, frame.x, "@")
       /\ paints' = Append(paints, Paint("HEAD", frame.y, frame.x, ok))
       /\ IF ok THEN pc' = "uc_store" /\ UNCHANGED result
                ELSE pc' = "ret" /\ result' = "curses.error"
       /\ last_head' = IF ok THEN <<frame.x, frame.y>> ELSE last_head
    /\ self' = [self EXCEPT !.cursor_x = frame.x, !.cursor_y = frame.y]
    /\ UNCHANGED <<curses, frame, key, expected, visited>>

\* paint new position with curr_point_char
UcHead ==
    /\ pc = "uc_head"
    /\ LET ok == AddstrOK(curses, frame.y, frame.x) IN
       /\ stdscr' = Addstr(stdscr, curses, frame.y, frame.x, "@")
       /\ paints' = Append(paints, Paint("HEAD", frame.y, frame.x, ok))
       /\ IF ok THEN pc' = "uc_store" /\ UNCHANGED result
                ELSE pc' = "ret" /\ result' = "curses.error"
       /\ last_head' = IF ok THEN <<frame.x, frame.y>> ELSE last_head
    /\ UNCHANGED <<curses, self, frame, key, expected, visited>>

\* What the accepted move of a call adds to the position (LEFT and UP
\* subtract, RIGHT and DOWN add).
Delta(direction, distance) ==
    CASE direction = "LEFT"  -> <<0 - distance, 0>>
      [] direction = "RIGHT" -> <<distance, 0>>
      [] direction = "UP"    -> <<0, 0 - distance>>
      [] direction = "DOWN"  -> <<0, distance>>

\* A store that swaps the coordinates.
UcStoreSwapsXY ==
    /\ pc = "uc_store"
    /\ self' = [self EXCEPT !.cursor_x = frame.y, !.cursor_y = frame.x]
    /\ result' = IF frame.op = "move" THEN "True" ELSE "None"
    /\ expected' = <<frame.y, frame.x>>
    /\ visited' = visited \cup {<<frame.y, frame.x>>}
    /\ pc' = "ret"
    /\ UNCHANGED <<curses, stdscr, frame, paints, key, last_head>>

\* A store that takes place for a move only, not for a placement.
UcStoreMovesOnly ==
    /\ pc = "uc_store"
    /\ self' = IF frame.op = "move"
               THEN [self EXCEPT !.cursor_x = frame.x, !.cursor_y = frame.y]
               ELSE self
    /\ result' = IF frame.op = "move" THEN "True" ELSE "None"
    /\ expected' =
         IF frame.op = "move"
         THEN <<expected[1] + Delta(frame.direction, frame.distance)[1],
                expected[2] + Delta(frame.direction, frame.distance)[2]>>
         ELSE <<frame.x, frame.y>>
    /\ visited' = visited \cup {<<frame.x, frame.y>>}
    /\ pc' = "ret"
    /\ UNCHANGED <<curses, stdscr, frame, paints, key, last_head>>

\* self.cursor_x = x; self.cursor_y = y; refresh; return to the caller,
\* which returns True (move_cursor) or None.
UcStore ==
    /\ pc = "uc_store"
    /\ self' = [self EXCEPT !.cursor_x = frame.x, !.cursor_y = frame.y]
    /\ result' = IF frame.op = "move" THEN "True" ELSE "None"
    /\ expected' =
         IF frame.op = "move"
         THEN <<expected[1] + Delta(frame.direction, frame.distance)[1],
                expected[2] + Delta(frame.direction, frame.distance)[2]>>
         ELSE <<frame.x, frame.y>>
    /\ visited' = visited \cup {<<frame.x, frame.y>>}
    /\ pc' = "ret"
    /\ UNCHANGED <<curses, stdscr, frame, paints, key, last_head>>

\* ----------------------------------------------------------- move_cursor
\* A move_cursor that marks the cell under the cursor before it returns
\* False.
MoveCursorMarksRejection(direction, distance, k) ==
    /\ pc = "idle"
    /\ key' = k
    /\ paints' = <<>>
    /\ LET f == [NoFrame EXCEPT !.op = "move", !.direction = direction,
                                !.distance = distance,
                                !.pre_x = self.cursor_x,
                                !.pre_y = self.cursor_y]
       IN
       IF DistanceInvalid(distance)
       THEN /\ frame' = f /\ pc' = "ret" /\ result' = "ValueError: distance"
            /\ UNCHANGED stdscr
       ELSE IF direction \notin Direction
       THEN /\ frame' = f /\ pc' = "ret" /\ result' = "ValueError: direction"
            /\ UNCHANGED stdscr
       ELSE IF self.cursor_x = None \/ self.cursor_y = None
       THEN /\ frame' = f /\ pc' = "ret" /\ result' = "TypeError"
            /\ UNCHANGED stdscr
       ELSE LET xy == Candidate(self, direction, distance) IN
            IF ~cursor_position_in_bounds(self, xy[1], xy[2])
            THEN /\ frame' = f /\ pc' = "ret" /\ result' = "False"
                 /\ stdscr' = Addstr(stdscr, curses, self.cursor_y,
                                     self.cursor_x, "#")
            ELSE /\ frame' = [f EXCEPT !.x = xy[1], !.y = xy[2]]
                 /\ EnterUpdateCursor(xy[1], xy[2])
                 /\ UNCHANGED stdscr
    /\ UNCHANGED <<curses, self, expected, last_head, visited>>

\* The body of move_cursor up to its call of update_cursor; k is the key
\* that caused the call ("none" for a call that is not from the key loop).
MoveCursor(direction, distance, k) ==
    /\ pc = "idle"
    /\ key' = k
    /\ paints' = <<>>
    /\ LET f == [NoFrame EXCEPT !.op = "move", !.direction = direction,
                                !.distance = distance,
                                !.pre_x = self.cursor_x,
                                !.pre_y = self.cursor_y]
       IN
       IF DistanceInvalid(distance)
       THEN frame' = f /\ pc' = "ret" /\ result' = "ValueError: distance"
       ELSE IF direction \notin Direction
       THEN frame' = f /\ pc' = "ret" /\ result' = "ValueError: direction"
       ELSE IF self.cursor_x = None \/ self.cursor_y = None
       THEN frame' = f /\ pc' = "ret" /\ result' = "TypeError"
       ELSE LET xy == Candidate(self, direction, distance) IN
            IF ~cursor_position_in_bounds(self, xy[1], xy[2])
            THEN frame' = f /\ pc' = "ret" /\ result' = "False"
            ELSE /\ frame' = [f EXCEPT !.x = xy[1], !.y = xy[2]]
                 /\ EnterUpdateCursor(xy[1], xy[2])
    /\ UNCHANGED <<curses, self, stdscr, expected, last_head, visited>>

\* ------------------------------------------------------------ the key loop
KeyName(direction) ==
    CASE direction = "LEFT"  -> "KEY_LEFT"
      [] direction = "RIGHT" -> "KEY_RIGHT"
      [] direction = "UP"    -> "KEY_UP"
      [] direction = "DOWN"  -> "KEY_DOWN"

\* An arrow key: window.move_cursor(direction)
KeyArrow == \E d \in Direction : MoveCursor(d, 1, KeyName(d))

\* draw_initial_screen(reset_cursor) is entered.
DrawInitialScreen(reset_cursor, k) ==
    /\ pc = "idle"
    /\ key' = k
    /\ paints' = <<>>
    /\ frame' = [NoFrame EXCEPT !.op = "draw", !.reset_cursor = reset_cursor,
                                !.pre_x = self.cursor_x,
                                !.pre_y = self.cursor_y]
    /\ pc' = "dis_begin"
    /\ UNCHANGED <<curses, self, stdscr, result, expected, last_head, visited>>

\* A clear that resets the cursor.
KeyClearResets == \E k \in {"c", "C"} : DrawInitialScreen(TRUE, k)

\* c or C: window.draw_initial_screen(reset_cursor=False)
KeyClear == \E k \in {"c", "C"} : DrawInitialScreen(FALSE, k)

\* q or Q: break
KeyQuit ==
    /\ pc = "idle"
    /\ \E k \in {"q", "Q"} : key' = k
    /\ result' = "quit"
    /\ pc' = "exit"
    /\ UNCHANGED <<curses, self, stdscr, frame, paints, expected, last_head, visited>>

\* any other key: continue
KeyOther ==
    /\ pc = "idle"
    /\ key' = "other"
    /\ frame' = [NoFrame EXCEPT !.op = "ignore",
                                !.pre_x = self.cursor_x,
                                !.pre_y = self.cursor_y]
    /\ paints' = <<>>
    /\ result' = "None"
    /\ pc' = "ret"
    /\ UNCHANGED <<curses, self, stdscr, expected, last_head, visited>>

\* ------------------------------------------- calls made by another client
CallMove ==
    \E d \in Direction \cup {NotADirection}, n \in (-1)..MaxDist :
        MoveCursor(d, n, "none")

CallUpdate ==
    \E x \in 0..(curses.COLS - 1), y \in 0..(curses.LINES - 1) :
        /\ pc = "idle"
        /\ key' = "none"
        /\ paints' = <<>>
        /\ frame' = [NoFrame EXCEPT !.op = "update", !.x = x, !.y = y,
                                    !.pre_x = self.cursor_x,
                                    !.pre_y = self.cursor_y]
        /\ EnterUpdateCursor(x, y)
        /\ UNCHANGED <<curses, self, stdscr, expected, last_head, visited>>

\* draw_initial_screen() with its default, reset_cursor=True
CallDraw == DrawInitialScreen(TRUE, "none")

\* ----------------------------------------------------------------- return
\* A return that also ends the key loop when an arrow key was blocked.
ReturnEndsOnBlockedKey ==
    /\ pc = "ret"
    /\ IF \/ result \in Exceptions /\ (frame.op = "init" \/ key # "none")
          \/ result = "False" /\ key # "none"
       THEN /\ pc' = "exit"
            /\ UNCHANGED <<frame, paints, result, key>>
       ELSE /\ pc' = "idle"
            /\ frame' = NoFrame
            /\ paints' = <<>>
            /\ result' = "none"
            /\ key' = "none"
    /\ UNCHANGED <<curses, self, stdscr, expected, last_head, visited>>

\* The call returns to its caller.  An exception leaves __init__ without a
\* Window and is not caught in main(): the program ends.  Otherwise the key
\* loop reads the next key (another client makes its next call).
Return ==
    /\ pc = "ret"
    /\ IF result \in Exceptions /\ (frame.op = "init" \/ key # "none")
       THEN /\ pc' = "exit"
            /\ UNCHANGED <<frame, paints, result, key>>
       ELSE /\ pc' = "idle"
            /\ frame' = NoFrame
            /\ paints' = <<>>
            /\ result' = "none"
            /\ key' = "none"
    /\ UNCHANGED <<curses, self, stdscr, expected, last_head, visited>>

Next ==
    \/ DisBegin \/ DisMessage \/ DisBorder \/ DisCursor
    \/ UcTrail \/ UcHead \/ UcStore
    \/ KeyArrow \/ KeyClear \/ KeyQuit \/ KeyOther
    \/ CallMove \/ CallUpdate \/ CallDraw
    \/ Return

Spec == Init /\ [][Next]_vars

\* ------------------------------------------------- paints that can fail
\* The addstr of the TRAIL paint raises curses.error although the cell is
\* inside curses.COLS x curses.LINES (the window has become smaller than
\* curses measured it): nothing is written, update_cursor is left.
UcTrailFails ==
    /\ pc = "uc_trail"
    /\ self.cursor_x # None /\ self.cursor_y # None
    /\ paints' = Append(paints,
           Paint("TRAIL", self.cursor_y, self.cursor_x, FALSE))
    /\ result' = "curses.error"
    /\ pc' = "ret"
    /\ UNCHANGED <<curses, self, stdscr, frame, key, expected, last_head,
                   visited>>

\* The addstr of the HEAD paint raises curses.error in the same way.
UcHeadFails ==
    /\ pc = "uc_head"
    /\ paints' = Append(paints, Paint("HEAD", frame.y, frame.x, FALSE))
    /\ result' = "curses.error"
    /\ pc' = "ret"
    /\ UNCHANGED <<curses, self, stdscr, frame, key, expected, last_head,
                   visited>>

\* The program (construction, then the key loop of main) with paints of
\* update_cursor that can fail.
FaultNext ==
    \/ DisBegin \/ DisMessage \/ DisBorder \/ DisCursor
    \/ UcTrail \/ UcTrailFails \/ UcHead \/ UcHeadFails \/ UcStore
    \/ KeyArrow \/ KeyClear \/ KeyQuit \/ KeyOther
    \/ Return

FaultSpec == Init /\ [][FaultNext]_vars

\* ----------------------------------------------------- construction alone
\* Window(stdscr, buffer_top, buffer_bottom, buffer_left, buffer_right,
\* draw_border, message) with every margin chosen and no cursor position
\* given, followed from __init__'s call of draw_initial_screen to its return.
CtorInit ==
    \E cols \in 1..MaxCols, lines \in 1..MaxLines,
       db \in BOOLEAN, msg \in {None, MaxMsgLen},
       bt \in 0..MaxBuffer, bb \in 0..MaxBuffer,
       bl \in 0..MaxBuffer, br \in 0..MaxBuffer :
        /\ curses = [COLS |-> cols, LINES |-> lines]
        /\ self = NewWindow(None, None, bt, bb, bl, br, msg, db)
        /\ stdscr = Blank(curses)
        /\ pc = "dis_begin"
        /\ frame = [NoFrame EXCEPT !.op = "init", !.reset_cursor = TRUE]
        /\ paints = <<>>
        /\ result = "none"
        /\ key = "none"
        /\ expected = <<None, None>>
        /\ last_head = <<None, None>>
        /\ visited = {}

CtorNext ==
    \/ DisBegin \/ DisMessage \/ DisBorder \/ DisCursor
    \/ UcTrail \/ UcHead \/ UcStore
    \/ Return

CtorSpec == CtorInit /\ [][CtorNext]_vars

\* =================================================================== claims
Placed == self.cursor_x # None /\ self.cursor_y # None

\* __init__ has returned a Window.
Constructed == frame.op # "init"

\* update_boundaries has run.
BoundsSet == self.min_x # None

\* (x, y) is a cell of the inner rectangle.
Inside(x, y) ==
    /\ self.cursor_min_x <= x /\ x <= self.cursor_max_x
    /\ self.cursor_min_y <= y /\ y <= self.cursor_max_y

Cur == <<self.cursor_x, self.cursor_y>>
Pre == <<frame.pre_x, frame.pre_y>>
Initial == <<self.initial_cursor_x, self.initial_cursor_y>>

\* The cell a move of the call in progress asks for.
Wanted ==
    <<frame.pre_x + Delta(frame.direction, frame.distance)[1],
      frame.pre_y + Delta(frame.direction, frame.distance)[2]>>

\* The call in progress is a move_cursor with valid arguments on a placed
\* cursor.
ValidMove ==
    /\ frame.op = "move"
    /\ frame.distance >= 1
    /\ frame.direction \in Direction
    /\ frame.pre_x # None /\ frame.pre_y # None

IsCursorPaint(p) == p.style \in {"TRAIL", "HEAD"}

\* The TRAIL and HEAD paints of the call in progress.
CursorPaints == SelectSeq(paints, IsCursorPaint)

ClearKey == key \in {"c", "C"}
ArrowKey == key \in {"KEY_LEFT", "KEY_RIGHT", "KEY_UP", "KEY_DOWN"}

SomeTrail == \E p \in DOMAIN stdscr : stdscr[p] = "#"

\* C1: once the Window is constructed, the stored cursor position is inside
\* the inner rectangle in every state; the cursor is unset only inside a
\* draw_initial_screen that resets it, which no key causes.
C1_CursorInsideInner ==
    Constructed =>
        /\ Placed => Inside(self.cursor_x, self.cursor_y)
        /\ ~Placed => (frame.op = "draw" /\ frame.reset_cursor /\ key = "none")

\* An arrow key is blocked at the right wall after the cursor left a trail.
C1_Witness ==
    /\ pc = "ret" /\ key = "KEY_RIGHT" /\ result = "False"
    /\ self.cursor_x = self.cursor_max_x
    /\ SomeTrail

\* C2: a move_cursor with distance >= 1 whose candidate cell is outside the
\* inner rectangle returns False at once, leaves the cursor where it was and
\* paints nothing, whatever the distance (no clamping to the wall).
C2_BlockedMoveRejected ==
    (ValidMove /\ ~Inside(Wanted[1], Wanted[2])) =>
        /\ pc = "ret"
        /\ result = "False"
        /\ Cur = Pre
        /\ paints = <<>>

\* A move of distance 2 is blocked although one step that way is free.
C2_Witness ==
    /\ ValidMove /\ frame.distance = 2 /\ pc = "ret" /\ result = "False"
    /\ Inside(frame.pre_x + Delta(frame.direction, 1)[1],
              frame.pre_y + Delta(frame.direction, 1)[2])
    /\ ~Inside(Wanted[1], Wanted[2])

\* C3: an accepted move paints TRAIL on the current cell, then HEAD on the
\* candidate, then stores the candidate and returns True; the stored
\* position does not change before both paints are done.
C3_TrailHeadStore ==
    (ValidMove /\ Inside(Wanted[1], Wanted[2])) =>
        LET trail == Paint("TRAIL", frame.pre_y, frame.pre_x, TRUE)
            head  == Paint("HEAD", Wanted[2], Wanted[1], TRUE)
        IN  /\ pc \in {"uc_trail", "uc_head", "uc_store", "ret"}
            /\ pc = "uc_trail" => (paints = <<>> /\ Cur = Pre)
            /\ pc = "uc_head" => (paints = <<trail>> /\ Cur = Pre)
            /\ pc = "uc_store" => (paints = <<trail, head>> /\ Cur = Pre)
            /\ pc = "ret" => /\ paints = <<trail, head>>
                             /\ Cur = Wanted
                             /\ result = "True"
                             /\ stdscr[<<frame.pre_y, frame.pre_x>>] = "#"
                             /\ stdscr[<<Wanted[2], Wanted[1]>>] = "@"

\* An accepted move has returned.
C3_Witness ==
    /\ ValidMove /\ pc = "ret" /\ result = "True"
    /\ Cur = Wanted /\ Cur # Pre

\* C4: the stored position is the position of the last placement plus the
\* sum of the deltas of the move_cursor calls that returned True since; a
\* call that returned False adds nothing.
C4_PositionIsSumOfAccepted ==
    Placed => Cur = expected

\* A move is rejected after accepted moves took the cursor off its initial
\* cell.
C4_Witness ==
    /\ ValidMove /\ pc = "ret" /\ result = "False"
    /\ Cur # Initial /\ Cur = expected
    /\ stdscr[<<self.initial_cursor_y, self.initial_cursor_x>>] = "#"

\* C5 as stated: after a clear command the cursor is at the configured
\* initial coordinates.
C5_ClearResetsToInitial ==
    (ClearKey /\ pc = "ret" /\ result = "None") => Cur = Initial

\* C5 amended: a clear command keeps the cursor at the position it had
\* before the clear, throughout; the cursor is put at the initial
\* coordinates by draw_initial_screen with reset_cursor=True.
C5_ClearKeepsPosition ==
    /\ ClearKey => (Cur = Pre /\ ~frame.reset_cursor)
    /\ (ClearKey /\ pc = "ret") => result = "None"
    /\ (frame.op \in {"init", "draw"} /\ frame.reset_cursor
        /\ pc = "ret" /\ result = "None") => Cur = Initial

\* A clear has returned with the cursor away from the initial coordinates.
C5_Witness ==
    ClearKey /\ pc = "ret" /\ result = "None" /\ Cur # Initial /\ Cur = Pre

\* C6 as stated: a clear command issues no TRAIL paint at the position the
\* cursor held before the clear; its only TRAIL or HEAD paint is the HEAD
\* glyph at the new position.
C6_NoTrailAtPreClearPosition ==
    /\ ClearKey =>
         \A i \in DOMAIN paints :
            ~(paints[i].style = "TRAIL" /\ paints[i].y = frame.pre_y
              /\ paints[i].x = frame.pre_x)
    /\ (ClearKey /\ pc = "ret") =>
         CursorPaints = <<Paint("HEAD", self.cursor_y, self.cursor_x, TRUE)>>

\* C6 amended: a clear command issues exactly one TRAIL paint, at the
\* position the cursor held before the clear, and then one HEAD paint on
\* that same cell; no other cell gets a TRAIL or HEAD paint, and when the
\* clear returns the cell shows HEAD and no cell shows the TRAIL glyph.
C6_ClearRepaintsHeldCell ==
    /\ ClearKey =>
         \A i \in DOMAIN CursorPaints :
            CursorPaints[i].y = frame.pre_y /\ CursorPaints[i].x = frame.pre_x
    /\ (ClearKey /\ pc = "ret") =>
         /\ CursorPaints = <<Paint("TRAIL", frame.pre_y, frame.pre_x, TRUE),
                             Paint("HEAD", frame.pre_y, frame.pre_x, TRUE)>>
         /\ stdscr[<<frame.pre_y, frame.pre_x>>] = "@"
         /\ ~SomeTrail

\* Inside a clear, the TRAIL glyph has been painted on the cell the cursor
\* held before the clear.
C6_Witness ==
    /\ ClearKey /\ pc = "uc_head"
    /\ Len(CursorPaints) = 1 /\ CursorPaints[1].style = "TRAIL"
    /\ stdscr[<<frame.pre_y, frame.pre_x>>] = "#"

\* The call in progress has entered update_cursor(frame.x, frame.y).
InUpdateCursor ==
    /\ frame.op \in {"update", "init", "draw"}
    /\ frame.x # None /\ frame.y # None
    /\ BoundsSet

\* The cursor as update_cursor found it: unset after a reset, else as on
\* entry of the call.
Prior == IF frame.reset_cursor THEN <<None, None>> ELSE Pre

\* C7: update_cursor(x, y) with (x, y) outside the inner rectangle raises
\* the out-of-bounds ValueError before any TRAIL or HEAD paint and leaves the
\* cursor as it found it (unset stays unset, placed keeps its coordinates).
C7_OutOfBoundsPlacementFails ==
    (InUpdateCursor /\ ~Inside(frame.x, frame.y)) =>
        /\ pc \in {"ret", "exit"}
        /\ result = "ValueError: out of bounds"
        /\ CursorPaints = <<>>
        /\ frame.op = "update" => paints = <<>>
        /\ Cur = Prior

\* update_cursor was called for a cell outside the inner rectangle while the
\* cursor was placed and had left a trail.
C7_Witness ==
    /\ frame.op = "update" /\ pc = "ret"
    /\ result = "ValueError: out of bounds"
    /\ ~Inside(frame.x, frame.y)
    /\ Placed /\ Cur = Pre /\ SomeTrail

\* C8: update_cursor(x, y) with (x, y) inside the inner rectangle succeeds
\* and the stored position becomes (x, y); from an unset cursor its only
\* paint is HEAD at (x, y), from a placed one TRAIL at the old cell first.
C8_InBoundsPlacementSucceeds ==
    (InUpdateCursor /\ Inside(frame.x, frame.y)) =>
        LET head == Paint("HEAD", frame.y, frame.x, TRUE)
            trail == Paint("TRAIL", frame.pre_y, frame.pre_x, TRUE)
        IN  /\ pc \in {"uc_trail", "uc_head", "uc_store", "ret"}
            /\ pc = "ret" =>
                 /\ result = "None"
                 /\ Cur = <<frame.x, frame.y>>
                 /\ stdscr[<<frame.y, frame.x>>] = "@"
                 /\ CursorPaints =
                      IF Prior = <<None, None>> THEN <<head>>
                      ELSE <<trail, head>>

\* Construction placed an unset cursor at explicit coordinates that are not
\* the top-left cell of the inner rectangle.
C8_Witness ==
    /\ frame.op = "init" /\ pc = "ret" /\ result = "None"
    /\ Cur = Initial
    /\ self.initial_cursor_x > self.cursor_min_x
    /\ self.initial_cursor_y > self.cursor_min_y
    /\ CursorPaints = <<Paint("HEAD", self.cursor_y, self.cursor_x, TRUE)>>

\* C9: move_cursor with distance < 1, or with a direction that is none of
\* LEFT, RIGHT, UP, DOWN, raises ValueError, paints nothing and leaves the
\* cursor where it was.
C9_InvalidArgumentRejected ==
    (frame.op = "move"
     /\ (frame.distance < 1 \/ frame.direction \notin Direction)) =>
        /\ pc = "ret"
        /\ result = IF frame.distance < 1 THEN "ValueError: distance"
                    ELSE "ValueError: direction"
        /\ paints = <<>>
        /\ Cur = Pre

\* A move LEFT by -1 is refused although the cell to the right is free.
C9_Witness ==
    /\ frame.op = "move" /\ pc = "ret"
    /\ frame.direction = "LEFT" /\ frame.distance = -1
    /\ Placed /\ Inside(frame.pre_x + 1, frame.pre_y)
    /\ result = "ValueError: distance"

\* The inner rectangle has no cell.
InnerEmpty ==
    \/ self.cursor_max_x < self.cursor_min_x
    \/ self.cursor_max_y < self.cursor_min_y

BorderPaints == SelectSeq(paints, LAMBDA p : p.style = "BORDER")

\* C10 as stated: constructing a Window whose drawable width or height is
\* zero or negative ends in an error, and until the error is raised no paint
\* (message, border, trail or head) has been attempted.
C10_NoPaintBeforeConfigError ==
    (frame.op = "init" /\ BoundsSet /\ InnerEmpty) =>
        /\ result = "none" => paints = <<>>
        /\ pc \in {"ret", "exit"} => result \in Exceptions

\* C10 amended: constructing such a Window never succeeds; it ends in the
\* out-of-bounds ValueError of update_cursor (or in the curses error of a
\* message or border paint that does not fit) with the cursor unset and no
\* TRAIL or HEAD paint attempted, but the message (when there is one) and the
\* border (when enabled) are painted before the ValueError.
C10_EmptyAreaFailsAfterDecoration ==
    /\ (Constructed /\ BoundsSet) => ~InnerEmpty
    /\ (frame.op = "init" /\ BoundsSet /\ InnerEmpty) =>
        /\ pc \in {"dis_message", "dis_border", "dis_cursor", "ret", "exit"}
        /\ ~Placed
        /\ CursorPaints = <<>>
        /\ pc \in {"ret", "exit"} =>
             result \in {"ValueError: out of bounds", "curses.error"}
        /\ result = "ValueError: out of bounds" =>
             /\ self.message # None =>
                  \E i \in DOMAIN paints : paints[i].style = "MESSAGE"
             /\ self.draw_border =>
                  Len(BorderPaints) = Len(BoxCalls(self))
             /\ ~self.draw_border => BorderPaints = <<>>

\* Construction failed with the out-of-bounds ValueError after the message
\* and the border were painted.
C10_Witness ==
    /\ frame.op = "init" /\ pc = "exit" /\ InnerEmpty
    /\ result = "ValueError: out of bounds"
    /\ \E i \in DOMAIN paints : paints[i].style = "MESSAGE"
    /\ BorderPaints # <<>>
    /\ \E p \in DOMAIN stdscr : stdscr[p] = "|"

\* C11: update_boundaries puts the outer rectangle at x in
\* [buffer_left, COLS-1-buffer_right], y in [buffer_top,
\* LINES-1-buffer_bottom], and the inner rectangle is the outer one shrunk
\* by one on every side with a border and the outer one without.
\* (As stated; the code computes another outer rectangle.)
InnerFromOuter ==
    IF self.draw_border
    THEN /\ self.cursor_min_x = self.min_x + 1
         /\ self.cursor_max_x = self.max_x - 1
         /\ self.cursor_min_y = self.min_y + 1
         /\ self.cursor_max_y = self.max_y - 1
    ELSE /\ self.cursor_min_x = self.min_x
         /\ self.cursor_max_x = self.max_x
         /\ self.cursor_min_y = self.min_y
         /\ self.cursor_max_y = self.max_y

C11_OuterIsTerminalMinusMargins ==
    BoundsSet =>
        /\ self.min_x = self.buffer_left
        /\ self.max_x = curses.COLS - 1 - self.buffer_right
        /\ self.min_y = self.buffer_top
        /\ self.max_y = curses.LINES - 1 - self.buffer_bottom
        /\ InnerFromOuter

\* C11 (amended): update_boundaries puts the outer rectangle at x in
\* [buffer_left, COLS-2-buffer_right], y in [buffer_top+1,
\* LINES-1-buffer_bottom] (row 0 is left to the message and the last usable
\* column is left out), and the inner rectangle is the outer one shrunk by
\* one on every side with a border and the outer one without.
C11_OuterSkipsHeaderRowAndLastColumn ==
    BoundsSet =>
        /\ self.min_x = self.buffer_left
        /\ self.max_x = curses.COLS - 2 - self.buffer_right
        /\ self.min_y = self.buffer_top + 1
        /\ self.max_y = curses.LINES - 1 - self.buffer_bottom
        /\ InnerFromOuter

\* update_boundaries has run for a terminal and margins that leave room,
\* with a border, and with non-zero margins on every side.
C11_Witness ==
    /\ BoundsSet
    /\ pc = "dis_message"
    /\ self.draw_border
    /\ self.buffer_left > 0 /\ self.buffer_top > 0
    /\ self.buffer_right > 0 /\ self.buffer_bottom > 0
    /\ self.cursor_min_x < self.cursor_max_x
    /\ self.cursor_min_y < self.cursor_max_y

\* The cells draw_box writes to.
BoxCells == {<<BoxCalls(self)[i][2], BoxCalls(self)[i][1]>> :
                i \in DOMAIN BoxCalls(self)}

\* C12: when the outer rectangle has positive area, the inner rectangle of
\* update_boundaries lies strictly inside it with a border (every inner
\* bound strictly inside the matching outer bound, no inner cell is a cell
\* of the border) and equals it without a border.
C12_InnerStrictlyInsideOuter ==
    (BoundsSet /\ self.min_x <= self.max_x /\ self.min_y <= self.max_y) =>
        IF self.draw_border
        THEN /\ self.min_x < self.cursor_min_x
             /\ self.cursor_max_x < self.max_x
             /\ self.min_y < self.cursor_min_y
             /\ self.cursor_max_y < self.max_y
             /\ \A p \in BoxCells : ~Inside(p[1], p[2])
        ELSE /\ self.cursor_min_x = self.min_x
             /\ self.cursor_max_x = self.max_x
             /\ self.cursor_min_y = self.min_y
             /\ self.cursor_max_y = self.max_y

\* The border has been drawn around an inner rectangle of more than one
\* cell.
C12_Witness ==
    /\ pc = "dis_cursor"
    /\ self.draw_border
    /\ BorderPaints # <<>>
    /\ self.cursor_min_x < self.cursor_max_x
    /\ self.cursor_min_y <= self.cursor_max_y

\* The call in progress is a move_cursor with valid arguments whose
\* candidate cell is outside the inner rectangle.
OutOfBoundsMove == ValidMove /\ ~Inside(Wanted[1], Wanted[2])

\* C13: an out-of-bounds move_cursor(direction, distance) on a placed cursor
\* returns False and changes neither the Window nor the screen; when it has
\* returned, the same move is out of bounds again, so a second attempt
\* returns False too and the position and the canvas after it are those
\* after the first attempt and those before it.
C13_RejectionIdempotent ==
    [][ /\ (pc = "idle" /\ OutOfBoundsMove') =>
             /\ pc' = "ret"
             /\ result' = "False"
             /\ self' = self
             /\ stdscr' = stdscr
             /\ frame'.pre_x = self.cursor_x
             /\ frame'.pre_y = self.cursor_y
        /\ (pc = "ret" /\ OutOfBoundsMove) =>
             /\ pc' = "idle"
             /\ self' = self
             /\ stdscr' = stdscr
             /\ Placed'
             /\ LET xy == Candidate(self', frame.direction, frame.distance)
                IN  /\ xy = Wanted
                    /\ ~cursor_position_in_bounds(self', xy[1], xy[2])
      ]_vars

\* A move up has been rejected with a trail on the screen.
C13_Witness ==
    /\ OutOfBoundsMove /\ pc = "ret" /\ result = "False"
    /\ frame.direction = "UP"
    /\ Cur = Pre
    /\ SomeTrail

QuitKey == key \in {"q", "Q"}

\* C14: the key loop ends exactly on q or Q: the step that reads q or Q ends
\* the program with the Window and the screen as they were and nothing
\* painted; once the Window is constructed nothing else ends the program
\* (no arrow key, blocked or not, no c or C, no other key); after the end no
\* step is taken; and a key is read only when no call is in progress, the
\* key before it having been handled to its return.
C14_LoopEndsExactlyOnQuit ==
    [][ /\ pc # "exit"
        /\ (pc = "idle" /\ QuitKey') =>
             /\ pc' = "exit"
             /\ self' = self /\ stdscr' = stdscr
             /\ paints' = <<>> /\ frame' = NoFrame
        /\ (pc' = "exit" /\ Constructed) => (pc = "idle" /\ QuitKey')
        /\ (key' # key /\ key' # "none") =>
             (pc = "idle" /\ key = "none" /\ frame = NoFrame
              /\ result = "none")
        /\ (key # "none" /\ key' = "none") => (pc = "ret" /\ pc' = "idle")
      ]_vars

\* The loop has ended on Q with a trail on the screen.
C14_Witness ==
    /\ pc = "exit" /\ key = "Q" /\ result = "quit"
    /\ Placed /\ SomeTrail

\* A TRAIL or HEAD paint of the call in progress raised.
PaintFailed == \E i \in DOMAIN CursorPaints : ~CursorPaints[i].ok

\* C15 as stated: a failed TRAIL or HEAD paint leaves cursor_x and cursor_y
\* as they were before the call, and in every reachable state the stored
\* position is the cell of the most recent successful HEAD paint.
C15_StoredIsLastHeadInEveryState ==
    /\ PaintFailed => Cur = Prior
    /\ Cur = last_head

\* C15 (amended): a failed TRAIL or HEAD paint leaves cursor_x and cursor_y
\* as they were before the call; the position is stored only after both
\* paints succeeded; the stored position is the cell of the most recent
\* successful HEAD paint in every state except between a successful HEAD
\* paint and the store that follows it, where it is still the position
\* before the call.
C15_StoredIsLastHeadOutsideStore ==
    /\ PaintFailed =>
         /\ pc \in {"ret", "exit"}
         /\ result = "curses.error"
         /\ Cur = Prior
    /\ pc \in {"uc_trail", "uc_head", "uc_store"} => Cur = Prior
    /\ pc = "uc_store" =>
         /\ \A i \in DOMAIN CursorPaints : CursorPaints[i].ok
         /\ last_head = <<frame.x, frame.y>>
    /\ pc # "uc_store" => Cur = last_head

\* The HEAD paint of an accepted move failed after its TRAIL paint
\* succeeded.
C15_Witness ==
    /\ pc = "ret" /\ result = "curses.error"
    /\ ValidMove /\ Wanted # Pre
    /\ Len(CursorPaints) = 2
    /\ CursorPaints[1].ok /\ ~CursorPaints[2].ok
    /\ Cur = Pre

\* __init__ is returning, or has returned, without an exception.
ConstructionCompleted ==
    \/ Constructed
    \/ frame.op = "init" /\ pc = "ret" /\ result = "None"

\* C16: when construction has completed without error, and in every state
\* after it, neither rectangle is inverted: min_x <= max_x, min_y <= max_y,
\* cursor_min_x <= cursor_max_x and cursor_min_y <= cursor_max_y.
C16_RectanglesNotInverted ==
    ConstructionCompleted =>
        /\ BoundsSet
        /\ self.min_x <= self.max_x
        /\ self.min_y <= self.max_y
        /\ self.cursor_min_x <= self.cursor_max_x
        /\ self.cursor_min_y <= self.cursor_max_y

\* A redraw for c or C, which recomputes the boundaries, has returned for a
\* bordered Window whose inner rectangle is one column wide.
C16_Witness ==
    /\ pc = "ret" /\ ClearKey /\ result = "None"
    /\ self.draw_border
    /\ self.cursor_min_x = self.cursor_max_x
    /\ self.cursor_min_y < self.cursor_max_y

\* C17: the cursor is unset only inside construction or inside the
\* update_cursor of a redraw that resets it: whenever the key loop waits for
\* a key the cursor is placed, and no move_cursor is entered with the
\* cursor unset.
C17_UnsetOnlyTransiently ==
    /\ pc = "idle" => Placed
    /\ frame.op = "move" =>
         /\ frame.pre_x # None /\ frame.pre_y # None
         /\ result # "TypeError"
    /\ ~Placed =>
         \/ frame.op = "init"
         \/ /\ frame.op = "draw" /\ frame.reset_cursor
            /\ pc \in {"uc_trail", "uc_head", "uc_store"}

\* A redraw that resets the cursor has forgotten the position and is about
\* to paint the head at the initial cell; the screen it cleared had been
\* drawn on.
C17_Witness ==
    /\ frame.op = "draw" /\ frame.reset_cursor
    /\ pc = "uc_head"
    /\ ~Placed
    /\ Pre # Initial

\* The cells of the screen that show a TRAIL or a HEAD glyph.
GlyphCells == {p \in DOMAIN stdscr : stdscr[p] \in {"#", "@"}}

\* C18: every TRAIL and HEAD paint of update_cursor, the TRAIL paint of the
\* old position included, is on a cell of the inner rectangle; so no cell
\* of the border and no cell of row 0 ever shows a TRAIL or HEAD glyph.
C18_CursorPaintsInsideInner ==
    /\ \A i \in DOMAIN CursorPaints :
          /\ BoundsSet
          /\ Inside(CursorPaints[i].x, CursorPaints[i].y)
          /\ CursorPaints[i].ok
    /\ \A p \in GlyphCells :
          /\ BoundsSet
          /\ Inside(p[2], p[1])
          /\ p[1] # 0
          /\ self.draw_border => <<p[2], p[1]>> \notin BoxCells

\* With a border and a message, a move from the left wall to the right
\* wall of the inner rectangle has painted its TRAIL and its HEAD next to
\* the border.
C18_Witness ==
    /\ self.draw_border /\ self.message # None
    /\ ValidMove /\ pc = "ret" /\ result = "True"
    /\ Len(CursorPaints) = 2
    /\ frame.pre_x = self.cursor_min_x
    /\ self.cursor_x = self.cursor_max_x
    /\ self.cursor_y = self.cursor_min_y

\* The cells of the inner rectangle, as <<x, y>>.
InnerCells == {<<p[2], p[1]>> : p \in {q \in Cells(curses) : Inside(q[2], q[1])}}

\* What the claim has cell <<x, y>> show: HEAD at the stored position, TRAIL
\* at the other cells the cursor was at since the last clear, blank at the
\* cells it never was at.
ClaimedGlyph(xy) ==
    IF xy = Cur THEN "@" ELSE IF xy \in visited THEN "#" ELSE " "

\* C19: paints not failing, whenever a key event is completed the canvas
\* inside the inner rectangle is determined by the cells visited since the
\* last clear: the stored position, and only it, shows HEAD, every other
\* visited cell shows TRAIL, every cell never visited is blank.
C19_CanvasIsVisitHistory ==
    (pc = "idle" \/ (pc = "exit" /\ QuitKey)) =>
        /\ Cur \in InnerCells
        /\ visited \subseteq InnerCells
        /\ \A xy \in InnerCells : stdscr[<<xy[2], xy[1]>>] = ClaimedGlyph(xy)

InnerTopLeft == <<self.cursor_min_x, self.cursor_min_y>>

\* The message paint and the border paints of draw_initial_screen do not
\* raise.
MessageFits == self.message = None \/ MessageOK(curses, self.message)
BorderFits == ~self.draw_border \/ FirstFail(BoxCalls(self), curses) = 0

\* C20 as stated: with no initial coordinates given the initial position is
\* the top-left cell of the inner rectangle, for both border settings and
\* all margins; construction places the cursor there whenever the inner
\* rectangle is not empty and fails with the out-of-bounds error exactly
\* when it is empty.
C20_DefaultConstructionFailsIffEmpty ==
    /\ BoundsSet => Initial = InnerTopLeft
    /\ (frame.op = "init" /\ pc = "ret") =>
         IF InnerEmpty
         THEN result = "ValueError: out of bounds"
         ELSE result = "None" /\ Cur = InnerTopLeft

\* C20 (amended): with no initial coordinates given the initial position is
\* the top-left cell of the inner rectangle, for both border settings and
\* all margins; construction places the cursor there exactly when the inner
\* rectangle is not empty and the message paint does not raise; it fails
\* with the out-of-bounds error exactly when the inner rectangle is empty
\* and neither the message paint nor a border paint raised before, and
\* with curses.error otherwise.  With a non-empty inner rectangle no border
\* paint raises.
C20_DefaultInitialIsInnerTopLeft ==
    /\ BoundsSet => Initial = InnerTopLeft
    /\ (BoundsSet /\ ~InnerEmpty) => BorderFits
    /\ (frame.op = "init" /\ pc = "ret") =>
         /\ result = "None" <=> (~InnerEmpty /\ MessageFits)
         /\ result = "None" => Cur = InnerTopLeft
         /\ result = "ValueError: out of bounds" <=>
                (InnerEmpty /\ MessageFits /\ BorderFits)
         /\ result = "curses.error" <=> ~(MessageFits /\ BorderFits)
         /\ result # "None" => ~Placed

\* A construction with a border, a message and margins on every side has
\* placed the cursor.
C20_Witness ==
    /\ frame.op = "init" /\ pc = "ret" /\ result = "None"
    /\ self.draw_border /\ self.message # None
    /\ self.buffer_top > 0 /\ self.buffer_left > 0
    /\ self.buffer_bottom > 0 /\ self.buffer_right > 0
    /\ Cur = InnerTopLeft
====
